---- MODULE Spec2Model ----
(***************************************************************************)
(* First-block cache of Comfy-WaveSpeed: the cache context and its         *)
(* registry (first_block_cache.py), the block executor                     *)
(* CachedTransformerBlocks.forward, and the node's admission policy and    *)
(* step detection (fbcache_nodes.py).                                      *)
(*                                                                         *)
(* Tensors are sequences along the sequence dimension (dim=1) of values    *)
(* of a small binary floating-point format: every element-wise + and - of  *)
(* the code rounds to MantissaBits significant bits, ties to even, as      *)
(* torch's floating dtypes do with their own precision.                    *)
(* An optional value (Python's None or a value) is <<>> or <<v>>.          *)
(***************************************************************************)
EXTENDS Integers, Sequences, FiniteSets, TLC

VARIABLES
    cfg,                     \* the executor's constructor arguments (self.*)
    patch,                   \* the node's patch() arguments: max hits, sigma window
    slot,                    \* _current_cache_context: <<>> or <<buffers of the context>>
    prev_timestep,           \* closure variable of patch(): <<>> or <<t>>
    current_timestep,        \* closure variable of patch(): <<>> or <<t>>
    consecutive_cache_hits,  \* closure variable of patch()
    last,                    \* history: what the most recent call did
    missLog,                 \* history: the most recent completed miss of the current context
    streakRun,               \* history: length of the current run of raw-similar invocations
    heap,                    \* the CacheContext objects created, by reference (1..Len(heap))
    scopes,                  \* the cache_context(...) scopes entered and not yet left
    closures,                \* the closure variables of each of two patched models
    ghost                    \* history: names issued; who installed and filled the context

vars == <<cfg, patch, slot, prev_timestep, current_timestep,
          consecutive_cache_hits, last, missLog, streakRun,
          heap, scopes, closures, ghost>>

\* The variables that only the specifications of the registry, of the name
\* counters and of two patched models use.
otherVars == <<heap, scopes, closures, ghost>>

OtherVarsUnused == heap = <<>> /\ scopes = <<>> /\ closures = <<>> /\ ghost = <<>>

-----------------------------------------------------------------------------
(* Bounds *)

MantissaBits == 2      \* significant bits of the floating-point format
MaxT == 2              \* step-time (sigma) values are 0..MaxT
MaxHits == 2           \* max_consecutive_cache_hits is absent or 1..MaxHits
MaxAbs == 2            \* the elements of the tensors compared are -MaxAbs..MaxAbs
MaxCtx == 2            \* CacheContext objects created in the registry specification
MaxScopes == 2         \* depth of nested cache_context(...) scopes
MaxCount == 2          \* cap on each counter of incremental_name_counters
MaxStreak == MaxHits + 1   \* cap on consecutive_cache_hits without a ceiling

-----------------------------------------------------------------------------
(* Optional values *)

Absent == <<>>
Some(v) == <<v>>
IsSome(o) == o # <<>>
Get(o) == o[1]

-----------------------------------------------------------------------------
(* Floating-point rounding: round-to-nearest, ties-to-even, MantissaBits   *)
(* significant bits.                                                       *)

RECURSIVE Pow2(_)
Pow2(n) == IF n = 0 THEN 1 ELSE 2 * Pow2(n - 1)

RECURSIVE Ulp(_, _)
Ulp(n, s) == IF n \div s < Pow2(MantissaBits) THEN s ELSE Ulp(n, 2 * s)

RoundAbs(n) ==
    LET s == Ulp(n, 1)
        q == n \div s
        r == n % s
        up == 2 * r > s \/ (2 * r = s /\ q % 2 = 1)
    IN  (IF up THEN q + 1 ELSE q) * s

\* The rounding of every magnitude the model's arithmetic produces, computed
\* once; a larger magnitude is an evaluation error, never a wrong value.
RoundTable == [n \in 0..(64 * Pow2(MantissaBits)) |-> RoundAbs(n)]

Fl(x) == IF x < 0 THEN 0 - RoundTable[0 - x] ELSE RoundTable[x]

-----------------------------------------------------------------------------
(* Tensor operations used by the code *)

TAdd(a, b) == [i \in DOMAIN a |-> Fl(a[i] + b[i])]        \* a + b
TSub(a, b) == [i \in DOMAIN a |-> Fl(a[i] - b[i])]        \* a - b
Abs(x) == IF x < 0 THEN 0 - x ELSE x

RECURSIVE SumAbs(_)
SumAbs(t) == IF t = <<>> THEN 0 ELSE Abs(Head(t)) + SumAbs(Tail(t))

Cat(a, b) == a \o b                                        \* torch.cat([a, b], dim=1)
SliceFrom(x, n) == SubSeq(x, n + 1, Len(x))                \* x[:, n:]
SplitAt(x, n) == <<SubSeq(x, 1, n), SubSeq(x, n + 1, Len(x))>>  \* x.split([n, len-n], dim=1)
Clone(x) == x                                              \* .clone(): an equal tensor
Contiguous(x) == x                                         \* .contiguous(): layout only

-----------------------------------------------------------------------------
(* The block callables.  They are opaque to the executor; these stand-ins  *)
(* are deterministic, treat the two streams differently and do not         *)
(* commute, so a wrong order or a swapped stream changes the result.       *)

DoubleBlock(k, img, txt) ==
    IF k % 2 = 1
    THEN [img |-> [i \in DOMAIN img |-> Fl(img[i] + txt[1])],
          txt |-> [j \in DOMAIN txt |-> Fl(txt[j] + 1)]]
    ELSE [img |-> [i \in DOMAIN img |-> Fl(2 * img[i])],
          txt |-> [j \in DOMAIN txt |-> Fl(txt[j] + img[1])]]

SingleBlock(kind, x) ==
    IF kind = "ident" THEN x
    ELSE IF kind = "mix" THEN [i \in DOMAIN x |-> Fl(x[i] + x[1])]
    ELSE [i \in DOMAIN x |-> Fl(x[i] + 1)]

\* What a two-stream block returns, in the convention of its model family.
BlockReturn(c, r) ==
    IF c.return_hidden_states_only THEN r.img
    ELSE IF c.return_hidden_states_first THEN <<r.img, r.txt>>
    ELSE <<r.txt, r.img>>

\* block(a, b, *args, **kwargs) for a two-stream block of a model family whose
\* calling convention is the one the executor was configured with.
BlockCall(c, k, a, b) ==
    BlockReturn(c, IF c.accept_hidden_states_first THEN DoubleBlock(k, a, b)
                   ELSE DoubleBlock(k, b, a))

-----------------------------------------------------------------------------
(* CacheContext and the registry (first_block_cache.py, lines 9-64) *)

BufNames == {"first_hidden_states_residual", "hidden_states_residual",
             "encoder_hidden_states_residual"}

\* CacheContext(): no buffer stored; dict.get() of a missing key is None.
create_cache_context == Some([n \in BufNames |-> Absent])

\* The registry slot holds the buffers of the one context it refers to: the
\* callers modelled here keep no other reference to a context.
get_current_cache_context == slot

\* set_current_cache_context(cache_context)
set_current_cache_context(cache_context) == cache_context

\* A faulty get_buffer: with no context installed it returns None.
get_buffer_lenient(cur, name) ==
    IF ~IsSome(cur) THEN [ok |-> TRUE, value |-> Absent]
    ELSE [ok |-> TRUE, value |-> Get(cur)[name]]

\* get_buffer(name): the current context's buffer, or the failed assertion.
\* cur is get_current_cache_context().
get_buffer(cur, name) ==
    IF ~IsSome(cur) THEN [ok |-> FALSE, value |-> Absent]
    ELSE [ok |-> TRUE, value |-> Get(cur)[name]]

\* set_buffer(name, buffer): cur afterwards (called with a context installed).
set_buffer(cur, name, buffer) == Some([Get(cur) EXCEPT ![name] = Some(buffer)])

-----------------------------------------------------------------------------
(* Similarity and admission (first_block_cache.py, lines 78-114) *)

ThresholdScale == 1000   \* thresholds are counted in steps of 0.001

\* A faulty comparison: <= instead of <.
are_two_tensors_similar_le(t1, t2, threshold) ==
    LET mean_diff == SumAbs(TSub(t1, t2))
        mean_t1 == SumAbs(t1)
    IN  IF mean_t1 = 0 THEN FALSE
        ELSE mean_diff * ThresholdScale <= threshold * mean_t1

\* mean(|t1 - t2|) / mean(|t1|) < threshold.  Both means are over the same
\* number of elements.  A zero mean(|t1|) makes the quotient inf or nan, and
\* no comparison with either is true.
are_two_tensors_similar(t1, t2, threshold) ==
    LET mean_diff == SumAbs(TSub(t1, t2))
        mean_t1 == SumAbs(t1)
    IN  IF mean_t1 = 0 THEN FALSE
        ELSE mean_diff * ThresholdScale < threshold * mean_t1

\* A faulty get_can_use_cache: an absent baseline counts as similar.
get_can_use_cache_absent_similar(cur, first_hidden_states_residual, threshold) ==
    LET prev_first_hidden_states_residual ==
            get_buffer(cur, "first_hidden_states_residual").value
    IN  ~IsSome(prev_first_hidden_states_residual) \/
        are_two_tensors_similar(Get(prev_first_hidden_states_residual),
                                first_hidden_states_residual, threshold)

\* Called with a context installed (get_buffer's assertion is forward's).
get_can_use_cache(cur, first_hidden_states_residual, threshold) ==
    LET prev_first_hidden_states_residual ==
            get_buffer(cur, "first_hidden_states_residual").value
    IN  IsSome(prev_first_hidden_states_residual) /\
        are_two_tensors_similar(Get(prev_first_hidden_states_residual),
                                first_hidden_states_residual, threshold)

\* A faulty apply_prev_hidden_states_residual: the encoder stream is returned
\* without its residual.
apply_prev_residual_hidden_only(cur, hidden_states, encoder_hidden_states) ==
    LET hidden_states_residual == get_buffer(cur, "hidden_states_residual").value
        encoder_hidden_states_residual ==
            get_buffer(cur, "encoder_hidden_states_residual").value
    IN  IF ~IsSome(hidden_states_residual) \/ ~IsSome(encoder_hidden_states_residual)
        THEN [ok |-> FALSE, hidden_states |-> <<>>, encoder_hidden_states |-> <<>>]
        ELSE [ok |-> TRUE,
              hidden_states |->
                  Contiguous(TAdd(Get(hidden_states_residual), hidden_states)),
              encoder_hidden_states |-> Contiguous(encoder_hidden_states)]

\* A faulty apply_prev_hidden_states_residual: an absent residual is skipped
\* instead of failing the assertion.
apply_prev_residual_silent(cur, hidden_states, encoder_hidden_states) ==
    LET hidden_states_residual == get_buffer(cur, "hidden_states_residual").value
        encoder_hidden_states_residual ==
            get_buffer(cur, "encoder_hidden_states_residual").value
    IN  [ok |-> TRUE,
         hidden_states |->
             IF IsSome(hidden_states_residual)
             THEN Contiguous(TAdd(Get(hidden_states_residual), hidden_states))
             ELSE hidden_states,
         encoder_hidden_states |->
             IF IsSome(encoder_hidden_states_residual)
             THEN Contiguous(TAdd(Get(encoder_hidden_states_residual),
                                  encoder_hidden_states))
             ELSE encoder_hidden_states]

\* The result is [ok, hidden_states, encoder_hidden_states]; ok is FALSE when
\* one of the two assertions fails.
apply_prev_hidden_states_residual(cur, hidden_states, encoder_hidden_states) ==
    LET hidden_states_residual == get_buffer(cur, "hidden_states_residual").value
        encoder_hidden_states_residual ==
            get_buffer(cur, "encoder_hidden_states_residual").value
    IN  IF ~IsSome(hidden_states_residual) \/ ~IsSome(encoder_hidden_states_residual)
        THEN [ok |-> FALSE, hidden_states |-> <<>>, encoder_hidden_states |-> <<>>]
        ELSE [ok |-> TRUE,
              hidden_states |->
                  Contiguous(TAdd(Get(hidden_states_residual), hidden_states)),
              encoder_hidden_states |->
                  Contiguous(TAdd(Get(encoder_hidden_states_residual),
                                  encoder_hidden_states))]

-----------------------------------------------------------------------------
(* CachedTransformerBlocks (first_block_cache.py, lines 117-301) *)

\* The unpacking of what a two-stream block returned into
\* <<hidden, encoder_hidden>>.
Unpack(c, ret, encoder_hidden_states) ==
    IF c.return_hidden_states_only THEN <<ret, encoder_hidden_states>>
    ELSE IF c.return_hidden_states_first THEN <<ret[1], ret[2]>>
    ELSE <<ret[2], ret[1]>>

\* One two-stream block: the call in the configured argument order and the
\* unpacking of what it returns.  The state is <<hidden, encoder_hidden>>.
TwoStreamStep(c, k, hidden_states, encoder_hidden_states) ==
    Unpack(c,
           IF c.accept_hidden_states_first
           THEN BlockCall(c, k, hidden_states, encoder_hidden_states)
           ELSE BlockCall(c, k, encoder_hidden_states, hidden_states),
           encoder_hidden_states)

\* for block in self.transformer_blocks[k-1:]
RECURSIVE TwoStreamLoop(_, _, _)
TwoStreamLoop(c, k, s) ==
    IF k > c.transformer_blocks THEN s
    ELSE TwoStreamLoop(c, k + 1, TwoStreamStep(c, k, s[1], s[2]))

\* for block in self.single_transformer_blocks
RECURSIVE SingleLoop(_, _)
SingleLoop(blocks, x) ==
    IF blocks = <<>> THEN x
    ELSE SingleLoop(Tail(blocks), SingleBlock(Head(blocks), x))

\* torch.cat of the two streams in the configured order
CatStreams(c, hidden_states, encoder_hidden_states) ==
    IF c.cat_hidden_states_first
    THEN Cat(hidden_states, encoder_hidden_states)
    ELSE Cat(encoder_hidden_states, hidden_states)

\* A faulty return: the pair is always (hidden, encoder_hidden).
ReturnValue_hidden_first(c, hidden_states, encoder_hidden_states) ==
    IF c.return_hidden_states_only THEN hidden_states
    ELSE <<hidden_states, encoder_hidden_states>>

\* The value forward returns for the streams (hidden, encoder_hidden).
ReturnValue(c, hidden_states, encoder_hidden_states) ==
    IF c.return_hidden_states_only THEN hidden_states
    ELSE IF c.return_hidden_states_first
         THEN <<hidden_states, encoder_hidden_states>>
         ELSE <<encoder_hidden_states, hidden_states>>

\* Whether a block is called after two-stream block #1.
HasRemainingBlocks(c) ==
    c.transformer_blocks > 1 \/
    (IsSome(c.single_transformer_blocks) /\ Get(c.single_transformer_blocks) # <<>>)

\* The single-stream stage of the disabled branch on the streams s.
DisabledSingleStage(c, s) ==
    IF IsSome(c.single_transformer_blocks)
    THEN <<SliceFrom(SingleLoop(Get(c.single_transformer_blocks),
                                CatStreams(c, s[1], s[2])),
                     Len(s[2])),
           s[2]>>
    ELSE s

\* The branch taken when residual_diff_threshold <= 0: <<hidden, encoder_hidden>>.
forward_disabled(c, img, txt) ==
    DisabledSingleStage(c, TwoStreamLoop(c, 1, <<img, txt>>))

\* A faulty split: always the text-then-image order.
SplitStreams_text_first(c, hidden_states, encoder_hidden_states) ==
    <<SplitAt(hidden_states, Len(encoder_hidden_states))[2],
      SplitAt(hidden_states, Len(encoder_hidden_states))[1]>>

\* The split after the single-stream blocks: <<hidden, encoder_hidden>>.
SplitStreams(c, hidden_states, encoder_hidden_states) ==
    IF c.cat_hidden_states_first
    THEN <<SplitAt(hidden_states, Len(hidden_states) - Len(encoder_hidden_states))[1],
           SplitAt(hidden_states, Len(hidden_states) - Len(encoder_hidden_states))[2]>>
    ELSE <<SplitAt(hidden_states, Len(encoder_hidden_states))[2],
           SplitAt(hidden_states, Len(encoder_hidden_states))[1]>>

\* A faulty single-stream stage: skipped when the two-stream stack has one block.
SingleStage_needs_two_blocks(c, s) ==
    IF IsSome(c.single_transformer_blocks) /\ c.transformer_blocks > 1
    THEN SplitStreams(c, SingleLoop(Get(c.single_transformer_blocks),
                                    CatStreams(c, s[1], s[2])),
                      s[2])
    ELSE s

\* The single-stream stage of the miss path on the streams s.
SingleStage(c, s) ==
    IF IsSome(c.single_transformer_blocks)
    THEN SplitStreams(c, SingleLoop(Get(c.single_transformer_blocks),
                                    CatStreams(c, s[1], s[2])),
                      s[2])
    ELSE s

\* A faulty end of call_remaining_transformer_blocks: the residuals are taken
\* the other way round (original - result).
RemainingResult_swapped(original_hidden_states, original_encoder_hidden_states, u) ==
    [hidden_states |-> Contiguous(u[1]),
     encoder_hidden_states |-> Contiguous(u[2]),
     hidden_states_residual |-> TSub(original_hidden_states, Contiguous(u[1])),
     encoder_hidden_states_residual |->
         TSub(original_encoder_hidden_states, Contiguous(u[2]))]

\* The end of call_remaining_transformer_blocks: the streams u made dense, and
\* their residuals against the originals.
RemainingResult(original_hidden_states, original_encoder_hidden_states, u) ==
    [hidden_states |-> Contiguous(u[1]),
     encoder_hidden_states |-> Contiguous(u[2]),
     hidden_states_residual |-> TSub(Contiguous(u[1]), original_hidden_states),
     encoder_hidden_states_residual |->
         TSub(Contiguous(u[2]), original_encoder_hidden_states)]

call_remaining_transformer_blocks(c, hidden_states, encoder_hidden_states) ==
    RemainingResult(
        IF c.clone_original_hidden_states THEN Clone(hidden_states)
        ELSE hidden_states,
        IF c.clone_original_hidden_states THEN Clone(encoder_hidden_states)
        ELSE encoder_hidden_states,
        SingleStage(c, TwoStreamLoop(c, 2, <<hidden_states, encoder_hidden_states>>)))

\* What one invocation of forward did.
\*   outcome  "ok", or how it ended: "assert" (a failed assertion), "error" or
\*            "interrupt" (raised by a block);
\*   out      <<>> or <<the value returned>>;
\*   cur      the current context's buffers afterwards;
\*   called   whether validate_can_use_cache_function was called, raw its
\*            argument, decision its result;
\*   path     "disabled", "hit", "miss", or "none" when it ended before the choice;
\*   post1    <<>> or <<(hidden, encoder_hidden) after two-stream block #1>>;
\*   streams  <<>> or <<(hidden, encoder_hidden) at the return statement>>.
Result(outcome, out, cur, called, raw, decision, path, post1, streams) ==
    [outcome |-> outcome, out |-> out, cur |-> cur, called |-> called, raw |-> raw,
     decision |-> decision, path |-> path, post1 |-> post1, streams |-> streams]

\* Whether a block raises in this call: fail names the block that would
\* ("none", "first": two-stream block #1, "rest": the first block after it).
RaisesInRest(c, fail) == fail = "rest" /\ HasRemainingBlocks(c)

\* The hit branch: a is what apply_prev_hidden_states_residual gave.
HitBranch(c, cur, raw, s1, a) ==
    IF ~a.ok
    THEN Result("assert", Absent, cur, TRUE, raw, TRUE, "hit", Some(s1), Absent)
    ELSE Result("ok", Some(ReturnValue(c, a.hidden_states, a.encoder_hidden_states)),
                cur, TRUE, raw, TRUE, "hit", Some(s1),
                Some(<<a.hidden_states, a.encoder_hidden_states>>))

\* The end of the miss branch: m is what call_remaining_transformer_blocks
\* returned, cur1 the buffers with the new first_hidden_states_residual.
MissStore(c, cur1, raw, s1, m) ==
    Result("ok", Some(ReturnValue(c, m.hidden_states, m.encoder_hidden_states)),
           set_buffer(set_buffer(cur1, "hidden_states_residual",
                                 m.hidden_states_residual),
                      "encoder_hidden_states_residual",
                      m.encoder_hidden_states_residual),
           TRUE, raw, FALSE, "miss", Some(s1),
           Some(<<m.hidden_states, m.encoder_hidden_states>>))

\* The miss branch after set_buffer("first_hidden_states_residual", ...).
MissBranch(c, cur1, raw, s1, fail, exc) ==
    IF RaisesInRest(c, fail)
    THEN Result(exc, Absent, cur1, TRUE, raw, FALSE, "miss", Some(s1), Absent)
    ELSE MissStore(c, cur1, raw, s1,
                   call_remaining_transformer_blocks(c, s1[1], s1[2]))

\* A faulty choice: the hit branch stores the new first_hidden_states_residual too.
Branch_hit_stores(c, cur, raw, can_use_cache, s1, first_hidden_states_residual, fail, exc) ==
    IF can_use_cache
    THEN HitBranch(c, set_buffer(cur, "first_hidden_states_residual",
                                 first_hidden_states_residual),
                   raw, s1, apply_prev_hidden_states_residual(cur, s1[1], s1[2]))
    ELSE MissBranch(c, set_buffer(cur, "first_hidden_states_residual",
                                  first_hidden_states_residual),
                    raw, s1, fail, exc)

\* The choice between the branches on can_use_cache.
Branch(c, cur, raw, can_use_cache, s1, first_hidden_states_residual, fail, exc) ==
    IF can_use_cache
    THEN HitBranch(c, cur, raw, s1,
                   apply_prev_hidden_states_residual(cur, s1[1], s1[2]))
    ELSE MissBranch(c, set_buffer(cur, "first_hidden_states_residual",
                                  first_hidden_states_residual),
                    raw, s1, fail, exc)

\* can_use_cache = validate_can_use_cache_function(get_can_use_cache(...)):
\* raw is get_can_use_cache's result.
Decide(c, cur, raw, pred, s1, first_hidden_states_residual, fail, exc) ==
    Branch(c, cur, raw, pred[raw], s1, first_hidden_states_residual, fail, exc)

\* forward after two-stream block #1 gave the streams s1.
AfterFirstBlock(c, cur, pred, original_hidden_states, s1, fail, exc) ==
    IF ~get_buffer(cur, "first_hidden_states_residual").ok
    THEN Result("assert", Absent, cur, FALSE, FALSE, FALSE, "none", Some(s1), Absent)
    ELSE Decide(c, cur,
                get_can_use_cache(cur, TSub(s1[1], original_hidden_states),
                                  c.residual_diff_threshold),
                pred, s1, TSub(s1[1], original_hidden_states), fail, exc)

\* A faulty forward: the threshold test is missing, the caching path always runs.
forward_streams_armed(c, img, txt, cur, pred, fail, exc) ==
    IF fail = "first"
    THEN Result(exc, Absent, cur, FALSE, FALSE, FALSE, "none", Absent, Absent)
    ELSE AfterFirstBlock(c, cur, pred,
                         IF c.clone_original_hidden_states THEN Clone(img) ELSE img,
                         TwoStreamStep(c, 1, img, txt), fail, exc)

\* forward with its first two arguments bound to (img, txt).
forward_streams(c, img, txt, cur, pred, fail, exc) ==
    IF c.residual_diff_threshold <= 0
    THEN IF fail = "first" \/ RaisesInRest(c, fail)
         THEN Result(exc, Absent, cur, FALSE, FALSE, FALSE, "disabled", Absent, Absent)
         ELSE Result("ok",
                     Some(ReturnValue(c, forward_disabled(c, img, txt)[1],
                                      forward_disabled(c, img, txt)[2])),
                     cur, FALSE, FALSE, FALSE, "disabled", Absent,
                     Some(forward_disabled(c, img, txt)))
    ELSE IF fail = "first"
    THEN Result(exc, Absent, cur, FALSE, FALSE, FALSE, "none", Absent, Absent)
    ELSE AfterFirstBlock(c, cur, pred,
                         IF c.clone_original_hidden_states THEN Clone(img) ELSE img,
                         TwoStreamStep(c, 1, img, txt), fail, exc)

\* forward(*args): args are the first two positional arguments, cur the
\* current context's buffers (<<>> when none is installed), pred the injected
\* predicate as a function of the raw similarity, fail the block that raises
\* in this call and exc what it raises.
forward(c, args, cur, pred, fail, exc) ==
    forward_streams(c,
                    IF c.accept_hidden_states_first THEN args[1] ELSE args[2],
                    IF c.accept_hidden_states_first THEN args[2] ELSE args[1],
                    cur, pred, fail, exc)

-----------------------------------------------------------------------------
(* Inputs and configurations *)

ImgInputs == {<<1, 2>>, <<3, 1>>}     \* the image stream of a call
TxtInputs == {<<1>>, <<3>>}           \* the text stream of a call
NodeImgInputs == {<<1, 2>>}           \* the image stream of a wrapped call
BlockCounts == {1, 2}                 \* len(transformer_blocks)
SingleStacks == {Absent, Some(<<"ident">>), Some(<<"mix", "shift">>)}
Fails == {"none", "first", "rest"}

Config(n, single, threshold, return_first, accept_first, cat_first, only) ==
    [transformer_blocks |-> n,
     single_transformer_blocks |-> single,
     residual_diff_threshold |-> threshold,
     return_hidden_states_first |-> return_first,
     accept_hidden_states_first |-> accept_first,
     cat_hidden_states_first |-> cat_first,
     return_hidden_states_only |-> only,
     clone_original_hidden_states |-> only]

\* Every executor the constructor can build over the stacks above; threshold
\* 0 is the disabled executor, 500 (0.5) an armed one.
ExecConfigs ==
    {Config(n, single, threshold, rf, af, cf, only) :
        n \in BlockCounts, single \in SingleStacks, threshold \in {0, 500},
        rf \in BOOLEAN, af \in BOOLEAN, cf \in BOOLEAN, only \in BOOLEAN}

NoPatch == [max_consecutive_cache_hits |-> Absent, start_sigma |-> Absent,
            end_sigma |-> Absent]

-----------------------------------------------------------------------------
(* History *)

\*   op             "forward" (the executor called directly), "wrapped" (a call
\*                  through model_unet_function_wrapper), "install", "clear", "init";
\*   t              the call's time value;
\*   afterInterrupt whether the call before it ended with the interrupt signal;
\*   fresh          whether the wrapper installed a fresh context;
\*   hitsEntry      consecutive_cache_hits when the executor was entered;
\*   entryFirst, entryResiduals  which buffers the current context held then;
\*   img, txt       the streams passed in; the rest is forward's Result.
Log(op, t, afterInterrupt, fresh, hitsEntry, cur, img, txt, r) ==
    [op |-> op, t |-> t, afterInterrupt |-> afterInterrupt,
     fresh |-> fresh, hitsEntry |-> hitsEntry,
     entryFirst |-> IsSome(cur) /\ IsSome(Get(cur)["first_hidden_states_residual"]),
     entryResiduals |-> IsSome(cur) /\ IsSome(Get(cur)["hidden_states_residual"])
                        /\ IsSome(Get(cur)["encoder_hidden_states_residual"]),
     img |-> img, txt |-> txt,
     outcome |-> r.outcome, out |-> r.out, called |-> r.called, raw |-> r.raw,
     decision |-> r.decision, path |-> r.path, post1 |-> r.post1,
     streams |-> r.streams]

NoResult == Result("ok", Absent, Absent, FALSE, FALSE, FALSE, "none", Absent, Absent)

NoLog(op) == Log(op, Absent, FALSE, FALSE, 0, Absent, <<>>, <<>>, NoResult)

\* The most recent completed miss of the current context: its streams after
\* two-stream block #1 and at the return statement, and the
\* first_hidden_states_residual it stored.
MissLogAfter(old, r) ==
    IF r.path = "miss" /\ r.outcome = "ok"
    THEN Some([post1 |-> Get(r.post1), streams |-> Get(r.streams),
               first |-> Get(Get(r.cur)["first_hidden_states_residual"])])
    ELSE old

-----------------------------------------------------------------------------
(* The executor called directly, with any injected predicate *)

InitExec ==
    /\ cfg \in ExecConfigs
    /\ patch = NoPatch
    /\ slot = Absent
    /\ prev_timestep = Absent
    /\ current_timestep = Absent
    /\ consecutive_cache_hits = 0
    /\ last = NoLog("init")
    /\ missLog = Absent
    /\ streakRun = 0
    /\ OtherVarsUnused

\* set_current_cache_context(create_cache_context())
ExecInstall ==
    /\ slot' = set_current_cache_context(create_cache_context)
    /\ last' = NoLog("install")
    /\ missLog' = Absent
    /\ UNCHANGED <<cfg, patch, prev_timestep, current_timestep,
                   consecutive_cache_hits, streakRun, otherVars>>

\* set_current_cache_context(None)
ExecClear ==
    /\ slot' = set_current_cache_context(Absent)
    /\ last' = NoLog("clear")
    /\ missLog' = Absent
    /\ UNCHANGED <<cfg, patch, prev_timestep, current_timestep,
                   consecutive_cache_hits, streakRun, otherVars>>

\* One call of the executor by a model that passes the streams in the
\* configured order; answer is what the injected predicate returns.
ExecForward(img, txt, answer, fail) ==
    LET args == IF cfg.accept_hidden_states_first THEN <<img, txt>> ELSE <<txt, img>>
        cur == get_current_cache_context
        pred == [raw \in BOOLEAN |-> answer]
    IN  \E r \in {forward(cfg, args, cur, pred, fail, "error")} :
        /\ slot' = r.cur
        /\ last' = Log("forward", Absent, FALSE, FALSE, 0, cur, img, txt, r)
        /\ missLog' = MissLogAfter(missLog, r)
        /\ UNCHANGED <<cfg, patch, prev_timestep, current_timestep,
                       consecutive_cache_hits, streakRun, otherVars>>

NextExec ==
    \/ ExecInstall
    \/ ExecClear
    \/ \E img \in ImgInputs, txt \in TxtInputs, answer \in BOOLEAN, fail \in Fails :
           ExecForward(img, txt, answer, fail)

SpecExec == InitExec /\ [][NextExec]_vars

-----------------------------------------------------------------------------
(* The node: ApplyFBCacheOnModel.patch (fbcache_nodes.py, lines 41-143) *)

Times == 0..MaxT

\* The executors patch() builds, one per model family it tells apart by class
\* name: the default (double_blocks and single_blocks), HunyuanVideo,
\* LTXVModel (transformer_blocks only) and OpenAISignatureMMDITWrapper
\* (joint_blocks only).  patch() returns the model unpatched unless the
\* threshold is positive: 0.5 here, and 1.0 for HunyuanVideo.
NodeConfigs ==
    {Config(2, Some(<<"mix", "shift">>), 500, TRUE, TRUE, FALSE, FALSE),
     Config(2, Some(<<"mix", "shift">>), 1000, TRUE, TRUE, TRUE, FALSE),
     Config(2, Absent, 500, TRUE, TRUE, FALSE, TRUE),
     Config(2, Absent, 500, FALSE, FALSE, FALSE, FALSE)}

\* start_sigma and end_sigma: absent, or the time value in the middle of the
\* range, so that calls happen below, at and above each bound.
SigmaChoices == {Absent, Some(MaxT \div 2)}

Patches ==
    [max_consecutive_cache_hits : {Absent} \cup {Some(n) : n \in 1..MaxHits},
     start_sigma : SigmaChoices,
     end_sigma : SigmaChoices]

\* A faulty validate_use_cache: the streak may equal the ceiling (<=).
validate_use_cache_streak_le(use_cached, hits, t, p) ==
    LET u1 == use_cached /\ (~IsSome(p.start_sigma) \/ t <= Get(p.start_sigma))
        u2 == u1 /\ (~IsSome(p.end_sigma) \/ t >= Get(p.end_sigma))
        u3 == u2 /\ (~IsSome(p.max_consecutive_cache_hits)
                     \/ hits <= Get(p.max_consecutive_cache_hits))
    IN  [use_cached |-> u3,
         consecutive_cache_hits |-> IF u3 THEN hits + 1 ELSE 0]

\* A faulty validate_use_cache: the start bound is exclusive (<).
validate_use_cache_start_exclusive(use_cached, hits, t, p) ==
    LET u1 == use_cached /\ (~IsSome(p.start_sigma) \/ t < Get(p.start_sigma))
        u2 == u1 /\ (~IsSome(p.end_sigma) \/ t >= Get(p.end_sigma))
        u3 == u2 /\ (~IsSome(p.max_consecutive_cache_hits)
                     \/ hits < Get(p.max_consecutive_cache_hits))
    IN  [use_cached |-> u3,
         consecutive_cache_hits |-> IF u3 THEN hits + 1 ELSE 0]

\* validate_use_cache(use_cached), with the closure variables it reads passed
\* in: the streak counter, current_timestep and the patch arguments.
validate_use_cache(use_cached, hits, t, p) ==
    LET u1 == use_cached /\ (~IsSome(p.start_sigma) \/ t <= Get(p.start_sigma))
        u2 == u1 /\ (~IsSome(p.end_sigma) \/ t >= Get(p.end_sigma))
        u3 == u2 /\ (~IsSome(p.max_consecutive_cache_hits)
                     \/ hits < Get(p.max_consecutive_cache_hits))
    IN  [use_cached |-> u3,
         consecutive_cache_hits |-> IF u3 THEN hits + 1 ELSE 0]

\* if prev_timestep is None or t >= prev_timestep
StepBoundary(prev, t) == ~IsSome(prev) \/ t >= Get(prev)

\* A faulty handler: the interrupt is passed on with prev_timestep kept.
AfterException_kept(prev, outcome) == prev

\* except InterruptProcessingException: prev_timestep = None; raise.  Any
\* other exception leaves the closure variables as they are.
AfterException(prev, outcome) == IF outcome = "interrupt" THEN Absent ELSE prev

\* The run of raw-similar invocations: 0 when none is under way; a run starts
\* with a raw-similar invocation entered with a streak of zero.
StreakRunAfter(run, hits, r) ==
    IF ~r.called \/ ~r.raw THEN 0
    ELSE IF hits = 0 THEN 1
    ELSE IF run > 0 THEN run + 1
    ELSE 0

Init ==
    /\ cfg \in NodeConfigs
    /\ patch \in Patches
    /\ slot = Absent
    /\ prev_timestep = Absent
    /\ current_timestep = Absent
    /\ consecutive_cache_hits = 0
    /\ last = NoLog("init")
    /\ missLog = Absent
    /\ streakRun = 0
    /\ OtherVarsUnused

\* model_unet_function_wrapper(model_function, kwargs): one call of the
\* patched model at time t on the streams (img, txt); model_function runs the
\* executor once.
model_unet_function_wrapper(t, img, txt, fail, exc) ==
    LET boundary == StepBoundary(prev_timestep, t)
        prev1 == IF boundary THEN Some(t) ELSE prev_timestep
        hits1 == IF boundary THEN 0 ELSE consecutive_cache_hits
        cur == IF boundary THEN set_current_cache_context(create_cache_context)
               ELSE get_current_cache_context
        pred == [raw \in BOOLEAN |-> validate_use_cache(raw, hits1, t, patch).use_cached]
        args == IF cfg.accept_hidden_states_first THEN <<img, txt>> ELSE <<txt, img>>
    IN  \E r \in {forward(cfg, args, cur, pred, fail, exc)} :
        /\ current_timestep' = Some(t)
        /\ slot' = r.cur
        /\ consecutive_cache_hits' =
               IF r.called
               THEN validate_use_cache(r.raw, hits1, t, patch).consecutive_cache_hits
               ELSE hits1
        /\ consecutive_cache_hits' <= MaxStreak
        /\ prev_timestep' = AfterException(prev1, r.outcome)
        /\ last' = Log("wrapped", Some(t),
                       last.outcome = "interrupt", boundary, hits1, cur, img, txt, r)
        /\ missLog' = MissLogAfter(IF boundary THEN Absent ELSE missLog, r)
        /\ streakRun' = StreakRunAfter(streakRun, hits1, r)
        /\ UNCHANGED <<cfg, patch, otherVars>>

Next ==
    \E t \in Times, img \in NodeImgInputs, txt \in TxtInputs :
        \/ model_unet_function_wrapper(t, img, txt, "none", "error")
        \/ \E fail \in {"first", "rest"}, exc \in {"interrupt", "error"} :
               model_unet_function_wrapper(t, img, txt, fail, exc)

Spec == Init /\ [][Next]_vars

-----------------------------------------------------------------------------
(* Claims about the executor *)

\* The tensor stored under name in the current context.
Buf(name) == Get(Get(slot)[name])

\* The uncached reference of C1: every two-stream block in stack order, then,
\* with a single-stream stack, the streams concatenated in the configured
\* order, every single-stream block in order, and the result split back into
\* (hidden, encoder_hidden) at the encoder's length in that same order.
UncachedReference(c, img, txt) ==
    LET s == TwoStreamLoop(c, 1, <<img, txt>>)
        x == IF IsSome(c.single_transformer_blocks)
             THEN SingleLoop(Get(c.single_transformer_blocks),
                             IF c.cat_hidden_states_first THEN s[1] \o s[2]
                             ELSE s[2] \o s[1])
             ELSE <<>>
        n == Len(s[2])
    IN  IF ~IsSome(c.single_transformer_blocks) THEN s
        ELSE IF c.cat_hidden_states_first
             THEN <<SubSeq(x, 1, Len(x) - n), SubSeq(x, Len(x) - n + 1, Len(x))>>
             ELSE <<SubSeq(x, n + 1, Len(x)), SubSeq(x, 1, n)>>

DisabledReturned ==
    last.op = "forward" /\ last.path = "disabled" /\ last.outcome = "ok"

\* C1: with residual_diff_threshold <= 0, forward returns exactly what the
\* uncached reference returns, for every setting of the three order flags.
C1_DisabledEqualsReference ==
    DisabledReturned =>
        Get(last.out) = ReturnValue(cfg,
                                    UncachedReference(cfg, last.img, last.txt)[1],
                                    UncachedReference(cfg, last.img, last.txt)[2])

HitReturned == last.op = "forward" /\ last.path = "hit" /\ last.outcome = "ok"

\* The stored residuals are the exact differences of the miss that stored
\* them: neither subtraction rounded.
ResidualsExact ==
    /\ IsSome(missLog)
    /\ \A i \in DOMAIN Buf("hidden_states_residual") :
           Buf("hidden_states_residual")[i] =
               Get(missLog).streams[1][i] - Get(missLog).post1[1][i]
    /\ \A i \in DOMAIN Buf("encoder_hidden_states_residual") :
           Buf("encoder_hidden_states_residual")[i] =
               Get(missLog).streams[2][i] - Get(missLog).post1[2][i]

SamePost1AsMiss == IsSome(missLog) /\ last.post1 = Some(Get(missLog).post1)

HitAddsStoredResiduals ==
    /\ Get(last.streams)[1] = TAdd(Buf("hidden_states_residual"), Get(last.post1)[1])
    /\ Get(last.streams)[2] =
           TAdd(Buf("encoder_hidden_states_residual"), Get(last.post1)[2])
    /\ Get(last.out) = ReturnValue(cfg, Get(last.streams)[1], Get(last.streams)[2])

HitEqualsMiss ==
    Get(last.out) = ReturnValue(cfg, Get(missLog).streams[1], Get(missLog).streams[2])

\* C3 as stated: a hit returns its own post-block-1 streams plus the stored
\* residuals, and with the miss's post-block-1 state it returns exactly what
\* the miss returned.
C3_HitEqualsMissExactly ==
    HitReturned =>
        /\ HitAddsStoredResiduals
        /\ SamePost1AsMiss => HitEqualsMiss

\* C3 amended: a hit returns its own post-block-1 streams plus the stored
\* residuals (floating-point sums); with the miss's post-block-1 state it
\* returns what the miss returned whenever the stored residuals are the exact
\* differences.
C3_HitAddsResiduals ==
    HitReturned =>
        /\ HitAddsStoredResiduals
        /\ (SamePost1AsMiss /\ ResidualsExact) => HitEqualsMiss

C3_Witness ==
    /\ HitReturned
    /\ SamePost1AsMiss
    /\ ResidualsExact
    /\ SumAbs(Buf("hidden_states_residual")) > 0
    /\ SumAbs(Buf("encoder_hidden_states_residual")) > 0

MissReturned == last.op = "forward" /\ last.path = "miss" /\ last.outcome = "ok"

\* C4 as stated: after a miss the stored residuals are the returned streams
\* minus the streams as they were before block #1 ran.
C4_ResidualAgainstInput ==
    MissReturned =>
        /\ Buf("hidden_states_residual") = TSub(Get(last.streams)[1], last.img)
        /\ Buf("encoder_hidden_states_residual") = TSub(Get(last.streams)[2], last.txt)

\* C4 amended: after a miss the stored residuals are the returned streams
\* minus the streams as they were after block #1 ran.
C4_ResidualAgainstPost1 ==
    MissReturned =>
        /\ Buf("hidden_states_residual") =
               TSub(Get(last.streams)[1], Get(last.post1)[1])
        /\ Buf("encoder_hidden_states_residual") =
               TSub(Get(last.streams)[2], Get(last.post1)[2])
        /\ Get(last.out) = ReturnValue(cfg, Get(last.streams)[1], Get(last.streams)[2])

C4_Witness ==
    /\ MissReturned
    /\ SumAbs(Buf("hidden_states_residual")) > 0
    /\ SumAbs(Buf("encoder_hidden_states_residual")) > 0
    /\ Get(last.post1) # <<last.img, last.txt>>

\* C10: when the injected predicate returns true while a full-stack residual
\* is absent from the current context, the invocation ends with a failed
\* assertion, returns nothing, and leaves the context's buffers as they were.
C10_HitWithoutResidualsAsserts ==
    [][(last'.op = "forward" /\ last'.called /\ last'.decision
        /\ ~last'.entryResiduals)
       => (last'.outcome = "assert" /\ last'.out = Absent /\ slot' = slot)]_vars

C10_Witness ==
    /\ last.op = "forward" /\ last.called /\ last.decision
    /\ ~last.entryResiduals /\ last.entryFirst
    /\ last.outcome = "assert"

-----------------------------------------------------------------------------
(* Claims about the node *)

Wrapped == last.op = "wrapped"

AllBuffersPresent ==
    IsSome(slot) /\ \A n \in BufNames : IsSome(Get(slot)[n])

\* C2: the first executor invocation after a fresh context was installed is a
\* miss: with first_hidden_states_residual absent the raw similarity and the
\* final decision are false, and once the invocation has returned the three
\* buffers are present.
C2_FirstInvocationIsMiss ==
    Wrapped =>
        /\ last.fresh => ~last.entryFirst
        /\ (~last.entryFirst /\ last.called) =>
               (~last.raw /\ ~last.decision /\ last.path = "miss")
        /\ (last.fresh /\ last.outcome = "ok") =>
               (last.path = "miss" /\ AllBuffersPresent)

C2_Witness ==
    /\ Wrapped /\ last.fresh /\ last.outcome = "ok" /\ last.path = "miss"
    /\ AllBuffersPresent
    /\ ~IsSome(patch.max_consecutive_cache_hits)
    /\ ~IsSome(patch.start_sigma) /\ ~IsSome(patch.end_sigma)

NoWindow == ~IsSome(patch.start_sigma) /\ ~IsSome(patch.end_sigma)

\* C5: with max_consecutive_cache_hits = N and no time window, a run of
\* raw-similar invocations that starts from a streak of zero gives N hits and
\* then one forced miss, which leaves the streak at zero; and the streak
\* counter is always between 0 and N.
C5_StreakAccounting ==
    IsSome(patch.max_consecutive_cache_hits) =>
        LET N == Get(patch.max_consecutive_cache_hits)
        IN  /\ consecutive_cache_hits \in 0..N
            /\ NoWindow =>
                   /\ streakRun \in 0..(N + 1)
                   /\ streakRun \in 1..N =>
                          (last.decision /\ last.path = "hit"
                           /\ consecutive_cache_hits = streakRun)
                   /\ streakRun = N + 1 =>
                          (last.called /\ last.raw /\ ~last.decision
                           /\ last.path = "miss" /\ consecutive_cache_hits = 0)

C5_Witness ==
    /\ IsSome(patch.max_consecutive_cache_hits) /\ NoWindow
    /\ Get(patch.max_consecutive_cache_hits) = MaxHits
    /\ streakRun = MaxHits + 1
    /\ last.path = "miss" /\ last.outcome = "ok"
    /\ consecutive_cache_hits = 0

TimeWindowOk ==
    /\ ~IsSome(patch.start_sigma) \/ Get(last.t) <= Get(patch.start_sigma)
    /\ ~IsSome(patch.end_sigma) \/ Get(last.t) >= Get(patch.end_sigma)

StreakOk ==
    \/ ~IsSome(patch.max_consecutive_cache_hits)
    \/ last.hitsEntry < Get(patch.max_consecutive_cache_hits)

\* C6: validate_use_cache returns true exactly when the raw similarity is
\* true, the time value is within [end_sigma, start_sigma] (bounds inclusive,
\* an absent bound unconstrained) and the streak before the call is below
\* max_consecutive_cache_hits (absent: unconstrained).
C6_FinalDecision ==
    (Wrapped /\ last.called) =>
        /\ last.decision <=> (last.raw /\ TimeWindowOk /\ StreakOk)
        /\ last.t = current_timestep

C6_Witness ==
    /\ Wrapped /\ last.called /\ last.decision
    /\ patch.start_sigma = last.t /\ patch.end_sigma = last.t
    /\ IsSome(patch.max_consecutive_cache_hits)
    /\ last.hitsEntry + 1 = Get(patch.max_consecutive_cache_hits)

\* C7: whenever a call's time value does not decrease relative to the time
\* value of the call before it (or there is none), the wrapper installs a
\* fresh empty context and resets the streak before the executor runs.
C7_FreshWhenTimeNotDecreasing ==
    [][(last'.op = "wrapped" /\
        (~IsSome(current_timestep) \/ Get(current_timestep') >= Get(current_timestep)))
       => (last'.fresh /\ last'.hitsEntry = 0
           /\ ~last'.entryFirst /\ ~last'.entryResiduals)]_vars

\* C8: a wrapped call that ends with the interrupt signal passes it on and
\* clears prev_timestep, and the call after it, whatever its time value,
\* installs a fresh context, resets the streak and is a miss.
C8_InterruptClearsStepTime ==
    /\ (Wrapped /\ last.outcome = "interrupt") =>
           (prev_timestep = Absent /\ last.out = Absent)
    /\ (Wrapped /\ last.afterInterrupt) =>
           /\ last.fresh /\ last.hitsEntry = 0
           /\ ~last.entryFirst /\ ~last.entryResiduals
           /\ last.called => (~last.decision /\ last.path = "miss")

\* The call after an interrupted one had a lower time value than the step
\* that was under way, and was a miss on a fresh context all the same.
C8_Witness ==
    /\ Wrapped /\ last.afterInterrupt /\ last.fresh
    /\ Get(last.t) < MaxT
    /\ last.path = "miss" /\ last.outcome = "ok"
    /\ prev_timestep = last.t

\* C9: whenever the executor, gated by the node's policy, takes the hit path,
\* both full-stack residuals are present in the current context.
C9_HitHasResiduals ==
    (Wrapped /\ last.path = "hit") =>
        /\ IsSome(slot)
        /\ IsSome(Get(slot)["hidden_states_residual"])
        /\ IsSome(Get(slot)["encoder_hidden_states_residual"])

\* C21: between executor invocations the three buffers of the current context
\* are coherent: hidden_states_residual and encoder_hidden_states_residual,
\* when present, were stored by the miss that stored the current
\* first_hidden_states_residual (so a hit replays residuals of the baseline it
\* was admitted against), also after a miss that a failing block aborted.
C21_BuffersCoherent ==
    (Wrapped /\ IsSome(slot)
     /\ (IsSome(Get(slot)["hidden_states_residual"])
         \/ IsSome(Get(slot)["encoder_hidden_states_residual"]))) =>
        /\ IsSome(missLog)
        /\ Get(slot)["first_hidden_states_residual"] = Some(Get(missLog).first)

-----------------------------------------------------------------------------
(* Further claims about the executor *)

ForwardReturned ==
    last.op = "forward" /\ last.outcome = "ok" /\ last.path \in {"hit", "miss"}

\* C13: for both values of accept_hidden_states_first and of
\* return_hidden_states_first, on the hit and on the miss path, the first two
\* inputs are bound to (image, text) by the input-order flag, and the pair is
\* returned as (hidden, encoder_hidden) when return_hidden_states_first holds
\* and as (encoder_hidden, hidden) otherwise: the image-stream result is never
\* in the text-stream position.
C13_StreamOrder ==
    ForwardReturned =>
        /\ Get(last.post1)[1] = DoubleBlock(1, last.img, last.txt).img
        /\ Get(last.post1)[2] =
               IF cfg.return_hidden_states_only THEN last.txt
               ELSE DoubleBlock(1, last.img, last.txt).txt
        /\ Len(Get(last.streams)[1]) = Len(last.img)
        /\ Len(Get(last.streams)[2]) = Len(last.txt)
        /\ ~cfg.return_hidden_states_only =>
               /\ Len(Get(last.out)) = 2
               /\ cfg.return_hidden_states_first =>
                      (Get(last.out)[1] = Get(last.streams)[1] /\
                       Get(last.out)[2] = Get(last.streams)[2])
               /\ ~cfg.return_hidden_states_first =>
                      (Get(last.out)[1] = Get(last.streams)[2] /\
                       Get(last.out)[2] = Get(last.streams)[1])

\* A hit that returned the pair text first, from inputs passed text first.
C13_Witness ==
    /\ ForwardReturned /\ last.path = "hit"
    /\ ~cfg.return_hidden_states_only
    /\ ~cfg.return_hidden_states_first /\ ~cfg.accept_hidden_states_first
    /\ Len(Get(last.out)[2]) = Len(last.img)
    /\ Len(last.img) # Len(last.txt)

\* C15: with residual_diff_threshold <= 0 an invocation takes the disabled
\* branch: it does not call the injected predicate, needs no context (it never
\* fails an assertion), and leaves the registry slot, the context's buffers
\* and the streak counter as they were.
C15_DisabledTouchesNothing ==
    [][(last'.op = "forward" /\ cfg.residual_diff_threshold <= 0)
       => (/\ last'.path = "disabled"
           /\ ~last'.called
           /\ last'.outcome # "assert"
           /\ slot' = slot
           /\ consecutive_cache_hits' = consecutive_cache_hits)]_vars

\* A disabled invocation that returned with no context installed.
C15_Witness ==
    /\ last.op = "forward" /\ last.path = "disabled" /\ last.outcome = "ok"
    /\ cfg.residual_diff_threshold <= 0
    /\ slot = Absent
    /\ IsSome(last.out)

\* The streams s after the two-stream blocks that follow block #1, the
\* applications written out for stacks of one and two blocks.
AfterBlocksTwoToN(c, s) ==
    IF c.transformer_blocks = 1 THEN s
    ELSE TwoStreamStep(c, 2, s[1], s[2])

\* The single-stream blocks applied once each in stack order to x, written
\* out for stacks of one and two blocks.
SingleBlocksInOrder(blocks, x) ==
    IF Len(blocks) = 1 THEN SingleBlock(blocks[1], x)
    ELSE SingleBlock(blocks[2], SingleBlock(blocks[1], x))

\* The streams a miss ends with, from the streams s after block #1.
MissStreams(c, s) ==
    LET d == AfterBlocksTwoToN(c, s)
        n == Len(d[2])
        x == SingleBlocksInOrder(Get(c.single_transformer_blocks),
                                 IF c.cat_hidden_states_first THEN d[1] \o d[2]
                                 ELSE d[2] \o d[1])
    IN  IF ~IsSome(c.single_transformer_blocks) THEN d
        ELSE IF c.cat_hidden_states_first
             THEN <<SubSeq(x, 1, Len(x) - n), SubSeq(x, Len(x) - n + 1, Len(x))>>
             ELSE <<SubSeq(x, n + 1, Len(x)), SubSeq(x, 1, n)>>

\* C18: an armed invocation calls two-stream block #1, then the injected
\* predicate once (also with the baseline absent); a hit returns the streams
\* after block #1 plus the stored residuals, no further block applied; a miss
\* returns them with two-stream blocks #2..N and then every single-stream
\* block applied once each in stack order, the single-stream blocks also when
\* N = 1.
C18_CallOrder ==
    [][(last'.op = "forward" /\ cfg.residual_diff_threshold > 0)
       => (/\ last'.called => IsSome(last'.post1)
           /\ (IsSome(slot) /\ IsSome(last'.post1)) => last'.called
           /\ IsSome(last'.post1) =>
                  Get(last'.post1)[1] = DoubleBlock(1, last'.img, last'.txt).img
           /\ last'.outcome = "ok" =>
                  (last'.called /\ last'.path \in {"hit", "miss"})
           /\ (last'.outcome = "ok" /\ last'.path = "hit") =>
                  /\ last'.decision
                  /\ Get(last'.streams)[1] =
                         TAdd(Get(Get(slot)["hidden_states_residual"]),
                              Get(last'.post1)[1])
                  /\ Get(last'.streams)[2] =
                         TAdd(Get(Get(slot)["encoder_hidden_states_residual"]),
                              Get(last'.post1)[2])
           /\ (last'.outcome = "ok" /\ last'.path = "miss") =>
                  /\ ~last'.decision
                  /\ Get(last'.streams) = MissStreams(cfg, Get(last'.post1)))]_vars

\* A miss on a fresh context (baseline absent) with one two-stream block and
\* two single-stream blocks whose order shows in the result.
C18_Witness ==
    /\ last.op = "forward" /\ last.path = "miss" /\ last.outcome = "ok"
    /\ ~last.entryFirst /\ last.called
    /\ cfg.transformer_blocks = 1
    /\ cfg.single_transformer_blocks = Some(<<"mix", "shift">>)
    /\ Get(last.streams) # Get(last.post1)
    /\ Get(last.streams) #
           SplitStreams(cfg, SingleLoop(<<"shift", "mix">>,
                                        CatStreams(cfg, Get(last.post1)[1],
                                                   Get(last.post1)[2])),
                        Get(last.post1)[2])

\* C19: an invocation that takes the hit path leaves the three buffers of the
\* current context as they were, and every miss stores the first-block
\* residual it computed; so first_hidden_states_residual is always the one of
\* the most recent miss, also across a run of hits.
C19_HitKeepsBaseline ==
    [][/\ (last'.op = "forward" /\ last'.path = "hit") => slot' = slot
       /\ (last'.op = "forward" /\ last'.path = "miss") =>
              (/\ IsSome(slot')
               /\ Get(slot')["first_hidden_states_residual"] =
                      Some(TSub(Get(last'.post1)[1], last'.img)))]_vars

\* A hit whose own first-block residual differs from the stored baseline.
C19_Witness ==
    /\ HitReturned
    /\ IsSome(missLog)
    /\ Buf("first_hidden_states_residual") # TSub(Get(last.post1)[1], last.img)
    /\ Buf("first_hidden_states_residual") =
           TSub(Get(missLog).post1[1], <<1, 2>>)

\* C20: in the miss path with a single-stream stack whose blocks return
\* their input unchanged, the streams after the split are exactly the streams
\* that were concatenated, with their lengths, for both values of
\* cat_hidden_states_first.
C20_SplitInvertsCat ==
    (MissReturned /\ cfg.single_transformer_blocks = Some(<<"ident">>)) =>
        /\ Get(last.streams) = AfterBlocksTwoToN(cfg, Get(last.post1))
        /\ Len(Get(last.streams)[1]) = Len(last.img)
        /\ Len(Get(last.streams)[2]) = Len(last.txt)

C20_Witness ==
    /\ MissReturned /\ cfg.single_transformer_blocks = Some(<<"ident">>)
    /\ cfg.cat_hidden_states_first
    /\ cfg.transformer_blocks = 2
    /\ Len(Get(last.streams)[1]) # Len(Get(last.streams)[2])

-----------------------------------------------------------------------------
(* The similarity test on its own: get_can_use_cache on any baseline *)

SimTensors == {<<a, b>> : a, b \in (0 - MaxAbs)..MaxAbs}

\* residual_diff_threshold: 0, 0.001, 0.5, 1.0 and 3.0
SimThresholds == {0, 1, 500, 1000, 3000}

InitSim ==
    /\ cfg \in {Config(1, Absent, th, TRUE, TRUE, FALSE, FALSE) : th \in SimThresholds}
    /\ patch = NoPatch
    /\ slot \in {create_cache_context} \cup
                {set_buffer(create_cache_context, "first_hidden_states_residual", t1) :
                     t1 \in SimTensors}
    /\ prev_timestep = Absent
    /\ current_timestep = Absent
    /\ consecutive_cache_hits = 0
    /\ last = [op |-> "init", t1 |-> Absent, t2 |-> <<>>, threshold |-> 0,
               result |-> FALSE]
    /\ missLog = Absent
    /\ streakRun = 0
    /\ OtherVarsUnused

\* get_can_use_cache(first_hidden_states_residual, threshold) on the current
\* context.
SimGetCanUseCache(first_hidden_states_residual) ==
    /\ last' = [op |-> "get_can_use_cache",
                t1 |-> get_buffer(slot, "first_hidden_states_residual").value,
                t2 |-> first_hidden_states_residual,
                threshold |-> cfg.residual_diff_threshold,
                result |-> get_can_use_cache(slot, first_hidden_states_residual,
                                             cfg.residual_diff_threshold)]
    /\ UNCHANGED <<cfg, patch, slot, prev_timestep, current_timestep,
                   consecutive_cache_hits, missLog, streakRun, otherVars>>

NextSim == \E t2 \in SimTensors : SimGetCanUseCache(t2)

SpecSim == InitSim /\ [][NextSim]_vars

Compared == last.op = "get_can_use_cache" /\ IsSome(last.t1)

\* The sums of magnitudes, element by element (both tensors have two
\* elements, so the ratio of the means is the ratio of the sums).
Magnitude(t) == Abs(t[1]) + Abs(t[2])

DiffMagnitude(t1, t2) == Abs(Fl(t1[1] - t2[1])) + Abs(Fl(t1[2] - t2[2]))

\* C16: are_two_tensors_similar(t1, t2, threshold) is true exactly when
\* mean|t1| is non-zero and mean|t1 - t2| / mean|t1| < threshold; so it is
\* true for t1 = t2 of non-zero magnitude and any threshold > 0, false for
\* every input with threshold 0, and false whenever t1 has zero magnitude.
C16_Similarity ==
    Compared =>
        LET t1 == Get(last.t1)
            t2 == last.t2
        IN  /\ last.result <=>
                   (Magnitude(t1) # 0 /\
                    DiffMagnitude(t1, t2) * ThresholdScale <
                        last.threshold * Magnitude(t1))
            /\ (t1 = t2 /\ Magnitude(t1) # 0 /\ last.threshold > 0) => last.result
            /\ last.threshold = 0 => ~last.result
            /\ Magnitude(t1) = 0 => ~last.result

\* Equal non-zero tensors found similar at the smallest positive threshold.
C16_Witness ==
    /\ Compared /\ last.result
    /\ Get(last.t1) = last.t2 /\ Magnitude(last.t2) # 0
    /\ last.threshold = 1

-----------------------------------------------------------------------------
(* The registry with contexts held by reference: the module-level          *)
(* get_buffer and set_buffer, set_current_cache_context and the scoped     *)
(* override cache_context (first_block_cache.py, lines 9-75).  Here slot   *)
(* holds <<>> or <<i>>, a reference to heap[i].                            *)

Prefixes == {"default", "a", "a_0"}

\* CacheContext(): no buffers, every counter at its default 0.
CacheContext ==
    [buffers |-> Get(create_cache_context),
     incremental_name_counters |-> [p \in Prefixes |-> 0]]

Refs == {Absent} \cup {Some(i) : i \in 1..Len(heap)}

RegTensors == {<<1>>, <<2>>}

\* The buffers of the context ref refers to, <<>> for no context.
BuffersOf(ref) == IF IsSome(ref) THEN Some(heap[Get(ref)].buffers) ELSE Absent

\* What an operation of the registry did: its outcome ("ok", or "assert" for
\* a failed assertion; for the end of a scope "return" or "raise"), its
\* arguments and the value it returned.
RegLog(op, outcome, name, arg, value) ==
    [op |-> op, outcome |-> outcome, name |-> name, arg |-> arg, value |-> value]

InitReg ==
    /\ cfg = Config(1, Absent, 500, TRUE, TRUE, FALSE, FALSE)
    /\ patch = NoPatch
    /\ slot = Absent
    /\ prev_timestep = Absent
    /\ current_timestep = Absent
    /\ consecutive_cache_hits = 0
    /\ last = RegLog("init", "ok", "", Absent, Absent)
    /\ missLog = Absent
    /\ streakRun = 0
    /\ heap = <<>>
    /\ scopes = <<>>
    /\ closures = <<>>
    /\ ghost = <<>>

\* c = create_cache_context()
RegCreate ==
    /\ Len(heap) < MaxCtx
    /\ heap' = Append(heap, CacheContext)
    /\ last' = RegLog("create_cache_context", "ok", "", Absent, Some(Len(heap) + 1))
    /\ UNCHANGED <<cfg, patch, slot, prev_timestep, current_timestep,
                   consecutive_cache_hits, missLog, streakRun, scopes, closures, ghost>>

\* set_current_cache_context(c)
RegSetCurrent(c) ==
    /\ slot' = set_current_cache_context(c)
    /\ last' = RegLog("set_current_cache_context", "ok", "", c, Absent)
    /\ UNCHANGED <<cfg, patch, prev_timestep, current_timestep,
                   consecutive_cache_hits, missLog, streakRun, otherVars>>

\* get_buffer(name) of the module
RegGetBuffer(name) ==
    /\ last' = RegLog("get_buffer",
                      IF get_buffer(BuffersOf(get_current_cache_context), name).ok
                      THEN "ok" ELSE "assert",
                      name, Absent,
                      get_buffer(BuffersOf(get_current_cache_context), name).value)
    /\ UNCHANGED <<cfg, patch, slot, prev_timestep, current_timestep,
                   consecutive_cache_hits, missLog, streakRun, otherVars>>

\* set_buffer(name, buffer) of the module: the assertion, then the write into
\* the context the slot refers to.
RegSetBuffer(name, buffer) ==
    /\ IF ~IsSome(get_current_cache_context)
       THEN /\ heap' = heap
            /\ last' = RegLog("set_buffer", "assert", name, Some(buffer), Absent)
       ELSE /\ heap' = [heap EXCEPT ![Get(slot)].buffers =
                            Get(set_buffer(Some(@), name, buffer))]
            /\ last' = RegLog("set_buffer", "ok", name, Some(buffer), Absent)
    /\ UNCHANGED <<cfg, patch, slot, prev_timestep, current_timestep,
                   consecutive_cache_hits, missLog, streakRun, scopes, closures, ghost>>

\* with cache_context(c): the entry.  old_cache_context is kept in the scope;
\* ghost records the slot as it was immediately before each entry.
ScopeEnter(c) ==
    /\ Len(scopes) < MaxScopes
    /\ scopes' = Append(scopes, [old_cache_context |-> slot])
    /\ slot' = c
    /\ ghost' = Append(ghost, slot)
    /\ last' = RegLog("scope_enter", "ok", "", c, Absent)
    /\ UNCHANGED <<cfg, patch, prev_timestep, current_timestep,
                   consecutive_cache_hits, missLog, streakRun, heap, closures>>

\* A faulty scope: the slot is restored on a normal return only (no finally).
cache_context_exit_no_finally(old_cache_context, current, how) ==
    IF how = "raise" THEN current ELSE old_cache_context

\* finally: _current_cache_context = old_cache_context, whether the body
\* returned or raised; current is the slot when the body ended.
cache_context_exit(old_cache_context, current, how) == old_cache_context

\* The innermost scope ends: its body returns or raises.
ScopeExit(how) ==
    /\ scopes # <<>>
    /\ slot' = cache_context_exit(scopes[Len(scopes)].old_cache_context, slot, how)
    /\ scopes' = SubSeq(scopes, 1, Len(scopes) - 1)
    /\ ghost' = SubSeq(ghost, 1, Len(ghost) - 1)
    /\ last' = RegLog("scope_exit", how, "", slot, ghost[Len(ghost)])
    /\ UNCHANGED <<cfg, patch, prev_timestep, current_timestep,
                   consecutive_cache_hits, missLog, streakRun, heap, closures>>

NextReg ==
    \/ RegCreate
    \/ \E c \in Refs : RegSetCurrent(c)
    \/ \E name \in BufNames : RegGetBuffer(name)
    \/ \E buffer \in RegTensors : RegSetBuffer("hidden_states_residual", buffer)
    \/ \E c \in Refs : ScopeEnter(c)
    \/ \E how \in {"return", "raise"} : ScopeExit(how)

SpecReg == InitReg /\ [][NextReg]_vars

\* C11: with no context in the registry slot, the module's get_buffer and
\* set_buffer fail an assertion, return nothing and change neither the slot
\* nor any CacheContext; with a context installed they read and write exactly
\* that context's buffers.
C11_BufferAccessNeedsContext ==
    [][/\ (last'.op \in {"get_buffer", "set_buffer"} /\ ~IsSome(slot)) =>
              (/\ last'.outcome = "assert" /\ last'.value = Absent
               /\ slot' = slot /\ heap' = heap /\ scopes' = scopes)
       /\ (last'.op = "get_buffer" /\ IsSome(slot)) =>
              (/\ last'.outcome = "ok"
               /\ last'.value = heap[Get(slot)].buffers[last'.name]
               /\ slot' = slot /\ heap' = heap)
       /\ (last'.op = "set_buffer" /\ IsSome(slot)) =>
              (/\ last'.outcome = "ok"
               /\ slot' = slot
               /\ Len(heap') = Len(heap)
               /\ \A i \in 1..Len(heap), n \in BufNames :
                      heap'[i].buffers[n] =
                          IF i = Get(slot) /\ n = last'.name THEN last'.arg
                          ELSE heap[i].buffers[n])]_vars

\* set_buffer failed its assertion while a context that holds a buffer exists
\* but is not installed.
C11_Witness ==
    /\ last.op = "set_buffer" /\ last.outcome = "assert"
    /\ slot = Absent
    /\ \E i \in 1..Len(heap) : IsSome(heap[i].buffers["hidden_states_residual"])

\* C12: inside the scope of cache_context(c) the slot holds c, and when the
\* scope ends, by return or by a failure raised inside it, the slot holds
\* again what it held immediately before the entry (also the absent value).
C12_ScopeRestores ==
    /\ last.op = "scope_enter" => slot = last.arg
    /\ last.op = "scope_exit" => slot = last.value

\* A scope that was entered with no context installed ended by a failure
\* while another context was installed, and the slot is empty again.
C12_Witness ==
    /\ last.op = "scope_exit" /\ last.outcome = "raise"
    /\ IsSome(last.arg)
    /\ last.value = Absent /\ slot = Absent

-----------------------------------------------------------------------------
(* One CacheContext and its methods (first_block_cache.py, lines 9-34):    *)
(* heap[1] is the context.                                                 *)

\* f"{name}_{idx}"
IncrementalName(name, idx) == name \o "_" \o ToString(idx)

\* if name is None: name = "default"
CounterKey(name) == IF IsSome(name) THEN Get(name) ELSE "default"

\* A faulty get_incremental_name: the counter is not incremented.
get_incremental_name_no_increment(ctx, name) ==
    [ctx |-> ctx,
     value |-> IncrementalName(CounterKey(name),
                               ctx.incremental_name_counters[CounterKey(name)])]

\* get_incremental_name(name): the context afterwards and the name returned.
get_incremental_name(ctx, name) ==
    [ctx |-> [ctx EXCEPT !.incremental_name_counters[CounterKey(name)] = @ + 1],
     value |-> IncrementalName(CounterKey(name),
                               ctx.incremental_name_counters[CounterKey(name)])]

\* reset_incremental_names(): the counters cleared, every one reads as 0.
reset_incremental_names(ctx) ==
    [ctx EXCEPT !.incremental_name_counters = [p \in Prefixes |-> 0]]

\* clear_buffers()
clear_buffers(ctx) ==
    [ctx EXCEPT !.buffers = [n \in BufNames |-> Absent]]

\* ghost: the names the context returned ever, and since the last reset.
InitNames ==
    /\ cfg = Config(1, Absent, 500, TRUE, TRUE, FALSE, FALSE)
    /\ patch = NoPatch
    /\ slot = Absent
    /\ prev_timestep = Absent
    /\ current_timestep = Absent
    /\ consecutive_cache_hits = 0
    /\ last = RegLog("init", "ok", "", Absent, Absent)
    /\ missLog = Absent
    /\ streakRun = 0
    /\ heap = <<CacheContext>>
    /\ scopes = <<>>
    /\ closures = <<>>
    /\ ghost = [issued |-> {}, sinceReset |-> {}]

NamesGetIncrementalName(name) ==
    /\ heap[1].incremental_name_counters[CounterKey(name)] < MaxCount
    /\ heap' = <<get_incremental_name(heap[1], name).ctx>>
    /\ last' = RegLog("get_incremental_name", "ok", "", name,
                      Some(get_incremental_name(heap[1], name).value))
    /\ ghost' = [issued |-> ghost.issued \cup
                                {get_incremental_name(heap[1], name).value},
                 sinceReset |-> ghost.sinceReset \cup
                                    {get_incremental_name(heap[1], name).value}]
    /\ UNCHANGED <<cfg, patch, slot, prev_timestep, current_timestep,
                   consecutive_cache_hits, missLog, streakRun, scopes, closures>>

NamesReset ==
    /\ heap' = <<reset_incremental_names(heap[1])>>
    /\ last' = RegLog("reset_incremental_names", "ok", "", Absent, Absent)
    /\ ghost' = [ghost EXCEPT !.sinceReset = {}]
    /\ UNCHANGED <<cfg, patch, slot, prev_timestep, current_timestep,
                   consecutive_cache_hits, missLog, streakRun, scopes, closures>>

\* CacheContext.set_buffer(name, buffer)
NamesSetBuffer(name, buffer) ==
    /\ heap' = <<[heap[1] EXCEPT !.buffers[name] = Some(buffer)]>>
    /\ last' = RegLog("CacheContext.set_buffer", "ok", name, Some(buffer), Absent)
    /\ UNCHANGED <<cfg, patch, slot, prev_timestep, current_timestep,
                   consecutive_cache_hits, missLog, streakRun, scopes, closures,
                   ghost>>

NamesClearBuffers ==
    /\ heap' = <<clear_buffers(heap[1])>>
    /\ last' = RegLog("clear_buffers", "ok", "", Absent, Absent)
    /\ UNCHANGED <<cfg, patch, slot, prev_timestep, current_timestep,
                   consecutive_cache_hits, missLog, streakRun, scopes, closures,
                   ghost>>

NextNames ==
    \/ \E name \in {Absent} \cup {Some(p) : p \in Prefixes} :
           NamesGetIncrementalName(name)
    \/ NamesReset
    \/ NamesSetBuffer("hidden_states_residual", <<1>>)
    \/ NamesClearBuffers

SpecNames == InitNames /\ [][NextNames]_vars

CountersNotDecreasing ==
    \A p \in Prefixes :
        heap'[1].incremental_name_counters[p] >= heap[1].incremental_name_counters[p]

\* C17 as stated: over every sequence of get_incremental_name,
\* reset_incremental_names and clear_buffers calls, no counter ever decreases
\* and get_incremental_name never returns a name it returned before.
C17_NamesNeverRepeat ==
    [][/\ CountersNotDecreasing
       /\ last'.op = "get_incremental_name" => Get(last'.value) \notin ghost.issued]_vars

\* C17 amended: get_incremental_name and clear_buffers never decrease a
\* counter, and get_incremental_name returns prefix_idx with idx the counter
\* before the call, a name not returned since the last
\* reset_incremental_names; reset_incremental_names sets every counter to 0.
C17_NamesUniqueBetweenResets ==
    [][/\ last'.op # "reset_incremental_names" => CountersNotDecreasing
       /\ last'.op = "reset_incremental_names" =>
              \A p \in Prefixes : heap'[1].incremental_name_counters[p] = 0
       /\ last'.op = "clear_buffers" =>
              heap'[1].incremental_name_counters = heap[1].incremental_name_counters
       /\ last'.op = "get_incremental_name" =>
              /\ Get(last'.value) \notin ghost.sinceReset
              /\ \E p \in Prefixes :
                     /\ p = CounterKey(last'.arg)
                     /\ Get(last'.value) =
                            IncrementalName(p, heap[1].incremental_name_counters[p])
                     /\ heap'[1].incremental_name_counters =
                            [heap[1].incremental_name_counters EXCEPT ![p] = @ + 1]]_vars

\* After a reset the context has issued names again, among them a_0 (prefix
\* a) and a_0_0 (prefix a_0), with names from before the reset not reissued.
C17_Witness ==
    /\ last.op = "get_incremental_name"
    /\ Cardinality(ghost.sinceReset) >= 2
    /\ Cardinality(ghost.issued) > Cardinality(ghost.sinceReset)
    /\ "a_0" \in ghost.sinceReset /\ "a_0_0" \in ghost.sinceReset

-----------------------------------------------------------------------------
(* Two independently patched models in one process: each has its own       *)
(* executor and closure variables (closures[m]), both use the one registry *)
(* slot.  ghost names the model whose wrapper installed the current        *)
(* context and the model whose miss stored its residuals (0: none).        *)

Models == {1, 2}

NewClosure ==
    [prev_timestep |-> Absent, current_timestep |-> Absent,
     consecutive_cache_hits |-> 0]

InitTwo ==
    /\ cfg = Config(2, Some(<<"mix", "shift">>), 500, TRUE, TRUE, FALSE, FALSE)
    /\ patch = NoPatch
    /\ slot = Absent
    /\ prev_timestep = Absent
    /\ current_timestep = Absent
    /\ consecutive_cache_hits = 0
    /\ last = [op |-> "init", m |-> 0, t |-> Absent, fresh |-> FALSE,
               path |-> "none", outcome |-> "ok", wrote |-> FALSE,
               installer |-> 0, storer |-> 0]
    /\ missLog = Absent
    /\ streakRun = 0
    /\ heap = <<>>
    /\ scopes = <<>>
    /\ closures = [m \in Models |-> NewClosure]
    /\ ghost = [installer |-> 0, storer |-> 0]

\* model_unet_function_wrapper of model m, on m's closure variables.
TwoModelsCall(m, t, img, txt) ==
    LET boundary == StepBoundary(closures[m].prev_timestep, t)
        prev1 == IF boundary THEN Some(t) ELSE closures[m].prev_timestep
        hits1 == IF boundary THEN 0 ELSE closures[m].consecutive_cache_hits
        cur == IF boundary THEN set_current_cache_context(create_cache_context)
               ELSE get_current_cache_context
        installer == IF boundary THEN m ELSE ghost.installer
        storer == IF boundary THEN 0 ELSE ghost.storer
        pred == [raw \in BOOLEAN |-> validate_use_cache(raw, hits1, t, patch).use_cached]
    IN  \E r \in {forward(cfg, <<img, txt>>, cur, pred, "none", "error")} :
        /\ slot' = r.cur
        /\ closures' =
               [closures EXCEPT
                    ![m] = [prev_timestep |-> AfterException(prev1, r.outcome),
                            current_timestep |-> Some(t),
                            consecutive_cache_hits |->
                                IF r.called
                                THEN validate_use_cache(r.raw, hits1, t, patch)
                                         .consecutive_cache_hits
                                ELSE hits1]]
        /\ closures'[m].consecutive_cache_hits <= MaxStreak
        /\ ghost' = [installer |-> installer,
                     storer |-> IF r.path = "miss" /\ r.outcome = "ok" THEN m
                                ELSE storer]
        /\ last' = [op |-> "model", m |-> m, t |-> Some(t), fresh |-> boundary,
                    path |-> r.path, outcome |-> r.outcome, wrote |-> r.cur # cur,
                    installer |-> installer, storer |-> storer]
        /\ UNCHANGED <<cfg, patch, prev_timestep, current_timestep,
                       consecutive_cache_hits, missLog, streakRun, heap, scopes>>

NextTwo ==
    \E m \in Models, t \in Times, img \in NodeImgInputs, txt \in TxtInputs :
        TwoModelsCall(m, t, img, txt)

SpecTwo == InitTwo /\ [][NextTwo]_vars

\* C14: for any interleaving of the wrapped calls of two patched models, the
\* buffers of a context are written only by the executor whose wrapper
\* installed it, and an executor's hit reads only residuals that the same
\* executor stored.
C14_ContextsNotShared ==
    last.op = "model" =>
        /\ last.wrote => last.installer = last.m
        /\ last.path = "hit" => last.storer = last.m

====
